---- MODULE Spec2Model ----
(***************************************************************************)
(* Model of the 42 API -> MCP server (src/src/index.ts, v0.1.5): the       *)
(* OAuth token cache (getAccessToken over a node-cache instance), the API  *)
(* client (apiRequest) and the manual JSON-RPC dispatcher                  *)
(* (SimpleHttpMcpTransport.handleRequest behind app.post('/')).            *)
(*                                                                         *)
(* Time is counted in seconds.  A request is handled in steps separated by *)
(* its I/O suspension points (the two fetch calls); everything between two *)
(* suspension points is one atomic action, as on the Node event loop.      *)
(***************************************************************************)
EXTENDS Integers, Sequences, FiniteSets, TLC

\* ---------------------------------------------------------------------------
\* Bounds of the model
\* ---------------------------------------------------------------------------
MaxTicks == 1          \* how many times the clock advances in a behaviour
MaxTokens == 2         \* how many tokens the OAuth endpoint issues
T0 == 1000             \* clock value at process start (Date.now() is far from 0)
TickSteps == {1, 3000} \* amounts by which the clock advances
Reqs == {"r1", "r2"}   \* requests that may be in flight together

\* ---------------------------------------------------------------------------
\* Program constants
\* ---------------------------------------------------------------------------
StdTTL == 60 * 50      \* new NodeCache({ stdTTL: 60 * 50 })
Margin == 60           \* tokenCache.set(..., expires_in - 60)
DefaultCursus == 21    \* args.cursusId || 21
SearchPageSize == 5    \* page[size]=5
InvalidRequest == 0 - 32600
MethodNotFound == 0 - 32601
InternalError == 0 - 32603
ParseErrorStatus == 400 \* body-parser: entity.parse.failed

\* ---------------------------------------------------------------------------
\* JavaScript values: undefined, null, numbers, strings (sequences of
\* characters or tokens) and booleans, as records of one shape so that any
\* two of them can be compared.
\* ---------------------------------------------------------------------------
Undef == [k |-> "undef", n |-> 0, s |-> <<>>]
Null == [k |-> "null", n |-> 0, s |-> <<>>]
Num(i) == [k |-> "num", n |-> i, s |-> <<>>]
Str(x) == [k |-> "str", n |-> 0, s |-> x]
Lit(x) == Str(<<x>>)
Bool(b) == [k |-> "bool", n |-> IF b THEN 1 ELSE 0, s |-> <<>>]
\* the decimal rendering of a number inside a template literal
Dec(i) == [k |-> "str", n |-> i, s |-> <<"#">>]

\* JavaScript truthiness, as used by `x || y` and `if (x)`
Truthy(v) ==
  CASE v.k = "undef" -> FALSE
    [] v.k = "null" -> FALSE
    [] v.k = "num" -> v.n # 0
    [] v.k = "str" -> v.s # <<>>
    [] v.k = "bool" -> v.n = 1

\* a || b
OrElse(a, b) == IF Truthy(a) THEN a ELSE b

\* `${v}` : string conversion inside a template literal
ToStr(v) ==
  CASE v.k = "undef" -> Lit("undefined")
    [] v.k = "null" -> Lit("null")
    [] v.k = "num" -> Dec(v.n)
    [] v.k = "bool" -> IF v.n = 1 THEN Lit("true") ELSE Lit("false")
    [] v.k = "str" -> v

\* a faulty encoder that lets reserved characters through
EncChar_Raw(c) == <<c>>

\* encodeURIComponent on one character: reserved characters are escaped
EncChar(c) ==
  CASE c = " " -> <<"%20">>
    [] c = "&" -> <<"%26">>
    [] c = "=" -> <<"%3D">>
    [] OTHER -> <<c>>

RECURSIVE EncSeq(_)
EncSeq(s) == IF s = <<>> THEN <<>> ELSE EncChar(Head(s)) \o EncSeq(Tail(s))

\* encodeURIComponent(v): v is converted to a string first
encodeURIComponent(v) ==
  LET t == ToStr(v) IN [k |-> "str", n |-> t.n, s |-> EncSeq(t.s)]

\* ---------------------------------------------------------------------------
\* node-cache (NodeCache 5.x) as used for tokenCache: one key, 'access_token'
\* An entry is {v: value, t: livetime}; livetime 0 means "never expires".
\* ---------------------------------------------------------------------------
NoEntry == [has |-> FALSE, v |-> 0, t |-> 0]

\* expires_in - 60 : NaN when expires_in is missing from the OAuth answer
TtlOf(expires_in) ==
  IF expires_in.k = "num" THEN [nan |-> FALSE, n |-> expires_in.n - Margin]
  ELSE [nan |-> TRUE, n |-> 0]

\* NodeCache._wrap: the livetime of an entry set at time `at` with `ttl`
Livetime(ttl, at) ==
  IF ~ttl.nan /\ ttl.n = 0 THEN 0
  ELSE IF ~ttl.nan /\ ttl.n # 0 THEN at + ttl.n
  ELSE IF StdTTL = 0 THEN 0 ELSE at + StdTTL

\* tokenCache.set('access_token', value, ttl)
CacheSet(value, ttl, at) == [has |-> TRUE, v |-> value, t |-> Livetime(ttl, at)]

\* a faulty check that expires an entry at its livetime, not after it
CacheCheck_Inclusive(entry, at) == ~(entry.t # 0 /\ entry.t <= at)

\* NodeCache._check: is the entry still to be served at time `at`
CacheCheck(entry, at) == ~(entry.t # 0 /\ entry.t < at)

\* tokenCache.get('access_token'): the value, or 0 for undefined
CacheGet(cache, at) ==
  IF cache.has /\ CacheCheck(cache, at) THEN cache.v ELSE 0

\* the cache after a get: an expired entry is deleted (deleteOnExpire)
CacheAfterGet(cache, at) ==
  IF cache.has /\ ~CacheCheck(cache, at) THEN NoEntry ELSE cache

\* ---------------------------------------------------------------------------
\* Request envelopes.  params and arguments are objects or undefined; an
\* argument that is not supplied reads as undefined.
\* ---------------------------------------------------------------------------
NoArgs == [k |-> "undef", query |-> Undef, userId |-> Undef, cursusId |-> Undef,
           campusId |-> Undef, poolId |-> Undef, pageSize |-> Undef,
           name |-> Undef, active |-> Undef, host |-> Undef,
           projectSessionId |-> Undef, projectId |-> Undef, sort |-> Undef,
           attachmentId |-> Undef, filter |-> Undef]
EmptyArgs == [NoArgs EXCEPT !.k = "obj"]
NoParams == [k |-> "undef", name |-> Undef, args |-> NoArgs]
Params(nm, a) == [k |-> "obj", name |-> nm, args |-> a]
Envelope(j, m, p, i) ==
  [present |-> TRUE, malformed |-> FALSE, jsonrpc |-> j, method |-> m, params |-> p, id |-> i]
\* req.body when the POST carried no JSON body
NoBody == [present |-> FALSE, malformed |-> FALSE, jsonrpc |-> Undef, method |-> Undef,
           params |-> NoParams, id |-> Undef]
\* a POST whose body is not well-formed JSON: express.json() fails on it
MalformedBody == [NoBody EXCEPT !.malformed = TRUE]

\* Math.min(a, b) on numbers
MinNum(a, b) == IF a.n <= b.n THEN a ELSE b

\* filters.join('&') prefixed by sep, or nothing when there is no filter
RECURSIVE JoinAmp(_)
JoinAmp(fs) ==
  IF fs = <<>> THEN <<>>
  ELSE IF Len(fs) = 1 THEN Head(fs)
  ELSE Head(fs) \o <<Lit("&")>> \o JoinAmp(Tail(fs))

Opt(cond, piece) == IF cond THEN <<piece>> ELSE <<>>

\* The names the tools/call switch of the manual transport dispatches
ManualTools == {"searchUsers", "getCursusLevel", "getUserProjects", "getCoalition",
                "getCampusUsers", "getBalances", "getClusters", "getLocations",
                "getAttachments", "getAttachment", "getProjects", "getProject",
                "getMyProjects"}

\* The tools registered on the McpServer with registerTool
RegisteredTools == ManualTools \cup {"getAccreditations", "getAccreditation"}

\* One property of an input schema: its type, whether a value must be given,
\* its default (undefined: none) and, for a bounded string, its length limits
Property(f, t, required, dflt) ==
  [f |-> f, t |-> t, required |-> required, dflt |-> dflt,
   bounded |-> FALSE, minLength |-> 0, maxLength |-> 0]
Required(f, t) == Property(f, t, TRUE, Undef)
Optional(f, t) == Property(f, t, FALSE, Undef)
Default(f, t, d) == Property(f, t, FALSE, d)
Between(p, lo, hi) == [p EXCEPT !.bounded = TRUE, !.minLength = lo, !.maxLength = hi]

\* The zod inputSchema each tool is registered with
RegisteredSchema(nm) ==
  CASE nm = "searchUsers" -> {Between(Required("query", "string"), 2, 30)}
    [] nm = "getCursusLevel" ->
         {Required("userId", "number"), Default("cursusId", "number", Num(21))}
    [] nm = "getUserProjects" ->
         {Required("userId", "number"), Optional("cursusId", "number")}
    [] nm = "getCoalition" -> {Required("userId", "number")}
    [] nm = "getCampusUsers" ->
         {Optional("campusId", "number"), Optional("userId", "number")}
    [] nm = "getBalances" -> {Optional("poolId", "number")}
    [] nm = "getClusters" ->
         {Optional("campusId", "number"), Optional("name", "string"),
          Default("pageSize", "number", Num(30))}
    [] nm = "getLocations" ->
         {Optional("campusId", "number"), Default("active", "boolean", Bool(TRUE)),
          Optional("host", "string"), Default("pageSize", "number", Num(100))}
    [] nm = "getAttachments" ->
         {Optional("projectId", "number"), Optional("projectSessionId", "number"),
          Default("pageSize", "number", Num(30)), Optional("sort", "string")}
    [] nm = "getAttachment" ->
         {Required("attachmentId", "number"), Optional("projectSessionId", "number")}
    [] nm = "getProjects" ->
         {Optional("cursusId", "number"), Optional("projectId", "number"),
          Default("pageSize", "number", Num(30)), Optional("sort", "string"),
          Optional("filter", "string")}
    [] nm = "getProject" -> {Required("projectId", "number")}
    [] nm = "getMyProjects" ->
         {Optional("cursusId", "number"), Default("pageSize", "number", Num(30)),
          Optional("sort", "string")}
    [] nm = "getAccreditations" ->
         {Optional("userId", "number"), Optional("cursusId", "number"),
          Optional("validated", "boolean"), Default("pageSize", "number", Num(30)),
          Optional("sort", "string")}
    [] nm = "getAccreditation" -> {Required("accreditationId", "number")}

\* A JSON Schema object of tools/list: its properties and its `required` list
JsonSchema(properties, required) ==
  {[p EXCEPT !.required = (p.f \in required)] : p \in properties}

\* The inputSchema tools/list advertises for each tool it lists
AdvertisedSchema(nm) ==
  CASE nm = "searchUsers" ->
         JsonSchema({Between(Optional("query", "string"), 2, 30)}, {"query"})
    [] nm = "getCursusLevel" ->
         JsonSchema({Optional("userId", "number"), Default("cursusId", "number", Num(21))},
                    {"userId"})
    [] nm = "getUserProjects" ->
         JsonSchema({Optional("userId", "number"), Optional("cursusId", "number")},
                    {"userId"})
    [] nm = "getCoalition" -> JsonSchema({Optional("userId", "number")}, {"userId"})
    [] nm = "getCampusUsers" ->
         JsonSchema({Optional("campusId", "number"), Optional("userId", "number")}, {})
    [] nm = "getBalances" -> JsonSchema({Optional("poolId", "number")}, {})
    [] nm = "getClusters" ->
         JsonSchema({Optional("campusId", "number"), Optional("name", "string"),
                     Default("pageSize", "number", Num(30))}, {})
    [] nm = "getLocations" ->
         JsonSchema({Optional("campusId", "number"),
                     Default("active", "boolean", Bool(TRUE)),
                     Optional("host", "string"),
                     Default("pageSize", "number", Num(100))}, {})
    [] nm = "getAttachments" ->
         JsonSchema({Optional("projectId", "number"),
                     Optional("projectSessionId", "number"),
                     Default("pageSize", "number", Num(30)),
                     Optional("sort", "string")}, {})
    [] nm = "getAttachment" ->
         JsonSchema({Optional("attachmentId", "number"),
                     Optional("projectSessionId", "number")}, {"attachmentId"})
    [] nm = "getProjects" ->
         JsonSchema({Optional("cursusId", "number"), Optional("projectId", "number"),
                     Default("pageSize", "number", Num(30)), Optional("sort", "string"),
                     Optional("filter", "string")}, {})
    [] nm = "getProject" -> JsonSchema({Optional("projectId", "number")}, {"projectId"})
    [] nm = "getMyProjects" ->
         JsonSchema({Optional("cursusId", "number"),
                     Default("pageSize", "number", Num(30)),
                     Optional("sort", "string")}, {})

\* zod's parse of one value against one property
Conforms(v, p) ==
  IF v = Undef
  THEN ~p.required
  ELSE CASE p.t = "string" ->
              /\ v.k = "str"
              /\ p.bounded => (Len(v.s) >= p.minLength /\ Len(v.s) <= p.maxLength)
         [] p.t = "number" -> v.k = "num"
         [] p.t = "boolean" -> v.k = "bool"

\* arguments `a` pass the schema the tool `nm` is registered with
SchemaOk(nm, a) ==
  /\ a.k = "obj"
  /\ \A p \in RegisteredSchema(nm) :
       Conforms(IF p.f \in DOMAIN a THEN a[p.f] ELSE Undef, p)

\* The resources registered on the McpServer with registerResource: those
\* with a fixed URI and those with a ResourceTemplate
RegisteredStaticResources == {"42://me", "42://campus", "42://attachments", "42://projects",
                              "42://me/projects", "42://accreditations"}
RegisteredTemplates == {"42://user/{id}", "42://attachments/{projectId}",
                        "42://project/{id}", "42://accreditation/{id}"}

\* the name as the switch sees it: a string of one token, or no tool at all
ToolName(nm) == IF nm.k = "str" /\ Len(nm.s) = 1 THEN nm.s[1] ELSE "?"

\* The path the tools/call branch of `nm` hands to apiRequest
ManualPath(nm, a) ==
  CASE nm = "searchUsers" ->
         <<Lit("/v2/users?filter[login]="), encodeURIComponent(a.query),
           Lit("&page[size]="), Dec(SearchPageSize)>>
    [] nm = "getCursusLevel" ->
         <<Lit("/v2/users/"), ToStr(a.userId), Lit("/cursus_users?filter[cursus_id]="),
           ToStr(OrElse(a.cursusId, Num(DefaultCursus)))>>
    [] nm = "getUserProjects" ->
         <<Lit("/v2/users/"), ToStr(a.userId), Lit("/projects_users")>>
         \o (IF Truthy(a.cursusId)
             THEN <<Lit("?filter[cursus_id]="), ToStr(a.cursusId)>> ELSE <<>>)
    [] nm = "getCoalition" ->
         <<Lit("/v2/users/"), ToStr(a.userId), Lit("/coalitions")>>
    [] nm = "getCampusUsers" ->
         IF Truthy(a.userId)
         THEN <<Lit("/v2/users/"), ToStr(a.userId), Lit("/campus_users")>>
         ELSE IF Truthy(a.campusId)
         THEN <<Lit("/v2/campus_users"), Lit("?filter[campus_id]="), ToStr(a.campusId)>>
         ELSE <<Lit("/v2/campus_users")>>
    [] nm = "getBalances" ->
         IF Truthy(a.poolId)
         THEN <<Lit("/v2/pools/"), ToStr(a.poolId), Lit("/balances")>>
         ELSE <<Lit("/v2/balances")>>
    [] nm = "getClusters" ->
         LET filters ==
               Opt(Truthy(a.campusId), <<Lit("filter[campus_id]="), ToStr(a.campusId)>>)
               \o Opt(Truthy(a.name), <<Lit("filter[name]="), encodeURIComponent(a.name)>>)
         IN <<Lit("/v2/clusters?page[size]="), ToStr(OrElse(a.pageSize, Num(30)))>>
            \o (IF Len(filters) > 0 THEN <<Lit("&")>> \o JoinAmp(filters) ELSE <<>>)
    [] nm = "getLocations" ->
         LET base ==
               IF Truthy(a.campusId)
               THEN <<Lit("/v2/campus/"), ToStr(a.campusId), Lit("/locations?page[size]="),
                      ToStr(OrElse(a.pageSize, Num(100)))>>
               ELSE <<Lit("/v2/locations?page[size]="), ToStr(OrElse(a.pageSize, Num(100)))>>
             locationFilters ==
               Opt(a.active # Bool(FALSE), <<Lit("filter[active]=true")>>)
               \o Opt(Truthy(a.host), <<Lit("filter[host]="), encodeURIComponent(a.host)>>)
         IN base \o (IF Len(locationFilters) > 0
                     THEN <<Lit("&")>> \o JoinAmp(locationFilters) ELSE <<>>)
    [] nm = "getAttachments" ->
         LET base ==
               IF Truthy(a.projectSessionId)
               THEN <<Lit("/v2/project_sessions/"), ToStr(a.projectSessionId), Lit("/attachments")>>
               ELSE IF Truthy(a.projectId)
               THEN <<Lit("/v2/projects/"), ToStr(a.projectId), Lit("/attachments")>>
               ELSE <<Lit("/v2/attachments")>>
             attachmentParams ==
               <<(<<Lit("page[size]="), ToStr(MinNum(OrElse(a.pageSize, Num(30)), Num(100)))>>)>>
               \o Opt(Truthy(a.sort), <<Lit("sort="), encodeURIComponent(a.sort)>>)
         IN base \o <<Lit("?")>> \o JoinAmp(attachmentParams)
    [] nm = "getAttachment" ->
         IF Truthy(a.projectSessionId)
         THEN <<Lit("/v2/project_sessions/"), ToStr(a.projectSessionId), Lit("/attachments/"),
                ToStr(a.attachmentId)>>
         ELSE <<Lit("/v2/attachments/"), ToStr(a.attachmentId)>>
    [] nm = "getProjects" ->
         LET base ==
               IF Truthy(a.cursusId)
               THEN <<Lit("/v2/cursus/"), ToStr(a.cursusId), Lit("/projects")>>
               ELSE IF Truthy(a.projectId)
               THEN <<Lit("/v2/projects/"), ToStr(a.projectId), Lit("/projects")>>
               ELSE <<Lit("/v2/projects")>>
             projectParams ==
               <<(<<Lit("page[size]="), ToStr(MinNum(OrElse(a.pageSize, Num(30)), Num(100)))>>)>>
               \o Opt(Truthy(a.sort), <<Lit("sort="), encodeURIComponent(a.sort)>>)
               \o Opt(Truthy(a.filter),
                      <<Lit("filter["), encodeURIComponent(a.filter), Lit("]=true")>>)
         IN base \o <<Lit("?")>> \o JoinAmp(projectParams)
    [] nm = "getProject" ->
         <<Lit("/v2/projects/"), ToStr(a.projectId)>>
    [] nm = "getMyProjects" ->
         LET myProjectParams ==
               <<(<<Lit("page[size]="), ToStr(MinNum(OrElse(a.pageSize, Num(30)), Num(100)))>>)>>
               \o Opt(Truthy(a.cursusId), <<Lit("cursus_id="), ToStr(a.cursusId)>>)
               \o Opt(Truthy(a.sort), <<Lit("sort="), encodeURIComponent(a.sort)>>)
         IN <<Lit("/v2/me/projects"), Lit("?")>> \o JoinAmp(myProjectParams)

\* ---------------------------------------------------------------------------
\* Responses.  A response object has a result field, an error field, or (in a
\* faulty build) both or neither; id "undef" is a field that is not there.
\* ---------------------------------------------------------------------------
NoInfo == [protocolVersion |-> "", name |-> "", version |-> ""]
NoText == [fmt |-> "none", body |-> <<>>, cursus |-> Undef, names |-> <<>>, info |-> NoInfo]
NoResp == [hasResult |-> FALSE, hasError |-> FALSE, kind |-> "none", code |-> 0,
           message |-> "", text |-> NoText, id |-> Undef]
ErrorResp(c, m, i) == [hasResult |-> FALSE, hasError |-> TRUE, kind |-> "none", code |-> c,
                       message |-> m, text |-> NoText, id |-> i]
ResultResp(kd, tx, i) == [hasResult |-> TRUE, hasError |-> FALSE, kind |-> kd, code |-> 0,
                          message |-> "", text |-> tx, id |-> i]

\* JSON.stringify(value, null, 2)
JsonText(body) == [NoText EXCEPT !.fmt = "json", !.body = body]

\* The text payload of the tools/call branch `nm` for the upstream JSON `body`
ManualText(nm, a, body) ==
  IF nm = "getCursusLevel"
  THEN IF Len(body) # 0
       THEN [NoText EXCEPT !.fmt = "level", !.body = <<body[1]>>,
                           !.cursus = OrElse(a.cursusId, Num(DefaultCursus))]
       ELSE [NoText EXCEPT !.fmt = "notEnrolled"]
  ELSE JsonText(body)

\* What console.error received in a catch block
NoLog == [kind |-> "none", status |-> 0, body |-> ""]
TypeErrorLog == [kind |-> "TypeError", status |-> 0, body |-> ""]
\* a faulty message that drops the body of the answer
OAuthFailure_NoBody(status, body) == [kind |-> "42 API oauth failure", status |-> status, body |-> ""]
\* new Error(`42 API oauth failure: ${res.status} ${await res.text()}`)
OAuthFailure(status, body) == [kind |-> "42 API oauth failure", status |-> status, body |-> body]
\* new Error(`42 API error: ${res.status} ${await res.text()}`)
ApiError(status, body) == [kind |-> "42 API error", status |-> status, body |-> body]

\* faulty catch blocks: the wrong code, a JSON-RPC 1.0 style envelope with
\* both fields, the message of the caught error passed on
CatchResp_NotFound(error, i) == ErrorResp(MethodNotFound, "Method not found", i)
CatchResp_BothFields(error, i) ==
  [ErrorResp(InternalError, "Internal error", i) EXCEPT !.hasResult = TRUE]
CatchResp_LeaksBody(error, i) == ErrorResp(InternalError, error.body, i)

\* the catch block of handleRequest
CatchResp(error, i) == ErrorResp(InternalError, "Internal error", i)

\* a faulty check that rejects only an envelope without jsonrpc
InvalidEnvelope_OnlyMissing(b) == b.jsonrpc = Undef

\* the envelope check at the head of handleRequest
InvalidEnvelope(b) == b.jsonrpc # Lit("2.0")
InvalidResp(b) == ErrorResp(InvalidRequest, "Invalid Request", OrElse(b.id, Null))

\* the method the outer switch matches
MethodName(b) == ToolName(b.method)

\* the answers of the branches that need no I/O
\* protocolVersion and serverInfo of the result of initialize
ServerInfo == [protocolVersion |-> "2024-11-05", name |-> "42-api-server", version |-> "0.1.5"]
\* a faulty initialize that reports no server identity
InitializeResp_NoServerInfo(i) == ResultResp("initialize", NoText, i)
InitializeResp(i) == ResultResp("initialize", [NoText EXCEPT !.fmt = "info", !.info = ServerInfo], i)
\* the names of result.tools of tools/list, in order
ListedTools == <<"searchUsers", "getCursusLevel", "getUserProjects", "getCoalition",
                 "getCampusUsers", "getBalances", "getClusters", "getLocations",
                 "getAttachments", "getAttachment", "getProjects", "getProject",
                 "getMyProjects">>
\* the uris of result.resources of resources/list, in order
ListedResources == <<"42://me", "42://campus", "42://attachments", "42://projects",
                     "42://me/projects">>
ListText(names) == [NoText EXCEPT !.fmt = "list", !.names = names]
ToolsListResp(i) == ResultResp("tools", ListText(ListedTools), i)
ResourcesListResp(i) == ResultResp("resources", ListText(ListedResources), i)
\* faulty default branches: an unknown tool reported as an internal error,
\* an unknown method answered like resources/list
ToolNotFoundResp_Internal(i) == ErrorResp(InternalError, "Internal error", i)
MethodNotFoundResp_Listed(i) == ResultResp("resources", NoText, i)

\* the default branch of the tools/call switch
ToolNotFoundResp(i) == ErrorResp(MethodNotFound, "Method not found", i)
\* the default branch of the method switch
MethodNotFoundResp(i) == ErrorResp(MethodNotFound, "Method not found", i)

\* the catch block of app.post('/'): status 500 and a best-effort envelope
PostCatchResp(b) == ErrorResp(InternalError, "Internal error", OrElse(b.id, Null))

\* ---------------------------------------------------------------------------
\* The handlers of registerTool, reached through the McpServer: the arguments
\* are parsed with the tool's schema first, which fills in the defaults
\* ---------------------------------------------------------------------------
ApplyDefaults(nm, a) ==
  [f \in DOMAIN a |->
     IF f = "k" THEN a[f]
     ELSE LET ps == {p \in RegisteredSchema(nm) : p.f = f} IN
          IF ps # {} /\ a[f] = Undef THEN (CHOOSE p \in ps : TRUE).dflt ELSE a[f]]

\* The path the registered handler of `nm` hands to apiRequest; a holds the
\* parsed arguments
HandlerPath(nm, a) ==
  CASE nm = "searchUsers" ->
         <<Lit("/v2/users?filter[login]="), encodeURIComponent(a.query),
           Lit("&page[size]="), Dec(SearchPageSize)>>
    [] nm = "getCursusLevel" ->
         <<Lit("/v2/users/"), ToStr(a.userId), Lit("/cursus_users?filter[cursus_id]="),
           ToStr(a.cursusId)>>
    [] nm = "getUserProjects" ->
         <<Lit("/v2/users/"), ToStr(a.userId), Lit("/projects_users")>>
         \o (IF Truthy(a.cursusId)
             THEN <<Lit("?filter[cursus_id]="), ToStr(a.cursusId)>> ELSE <<>>)
    [] nm = "getCoalition" ->
         <<Lit("/v2/users/"), ToStr(a.userId), Lit("/coalitions")>>
    [] nm = "getCampusUsers" ->
         IF Truthy(a.userId)
         THEN <<Lit("/v2/users/"), ToStr(a.userId), Lit("/campus_users")>>
         ELSE IF Truthy(a.campusId)
         THEN <<Lit("/v2/campus_users"), Lit("?filter[campus_id]="), ToStr(a.campusId)>>
         ELSE <<Lit("/v2/campus_users")>>
    [] nm = "getBalances" ->
         IF Truthy(a.poolId)
         THEN <<Lit("/v2/pools/"), ToStr(a.poolId), Lit("/balances")>>
         ELSE <<Lit("/v2/balances")>>
    [] nm = "getClusters" ->
         LET filters ==
               Opt(Truthy(a.campusId), <<Lit("filter[campus_id]="), ToStr(a.campusId)>>)
               \o Opt(Truthy(a.name), <<Lit("filter[name]="), encodeURIComponent(a.name)>>)
         IN <<Lit("/v2/clusters?page[size]="), ToStr(a.pageSize)>>
            \o (IF Len(filters) > 0 THEN <<Lit("&")>> \o JoinAmp(filters) ELSE <<>>)
    [] nm = "getLocations" ->
         LET base ==
               IF Truthy(a.campusId)
               THEN <<Lit("/v2/campus/"), ToStr(a.campusId), Lit("/locations?page[size]="),
                      ToStr(a.pageSize)>>
               ELSE <<Lit("/v2/locations?page[size]="), ToStr(a.pageSize)>>
             filters ==
               Opt(Truthy(a.active), <<Lit("filter[active]=true")>>)
               \o Opt(Truthy(a.host), <<Lit("filter[host]="), encodeURIComponent(a.host)>>)
         IN base \o (IF Len(filters) > 0 THEN <<Lit("&")>> \o JoinAmp(filters) ELSE <<>>)
    [] nm = "getAttachments" ->
         LET base ==
               IF Truthy(a.projectSessionId)
               THEN <<Lit("/v2/project_sessions/"), ToStr(a.projectSessionId), Lit("/attachments")>>
               ELSE IF Truthy(a.projectId)
               THEN <<Lit("/v2/projects/"), ToStr(a.projectId), Lit("/attachments")>>
               ELSE <<Lit("/v2/attachments")>>
             params ==
               <<(<<Lit("page[size]="), ToStr(MinNum(a.pageSize, Num(100)))>>)>>
               \o Opt(Truthy(a.sort), <<Lit("sort="), encodeURIComponent(a.sort)>>)
         IN base \o <<Lit("?")>> \o JoinAmp(params)
    [] nm = "getAttachment" ->
         IF Truthy(a.projectSessionId)
         THEN <<Lit("/v2/project_sessions/"), ToStr(a.projectSessionId), Lit("/attachments/"),
                ToStr(a.attachmentId)>>
         ELSE <<Lit("/v2/attachments/"), ToStr(a.attachmentId)>>
    [] nm = "getProjects" ->
         LET base ==
               IF Truthy(a.cursusId)
               THEN <<Lit("/v2/cursus/"), ToStr(a.cursusId), Lit("/projects")>>
               ELSE IF Truthy(a.projectId)
               THEN <<Lit("/v2/projects/"), ToStr(a.projectId), Lit("/projects")>>
               ELSE <<Lit("/v2/projects")>>
             params ==
               <<(<<Lit("page[size]="), ToStr(MinNum(a.pageSize, Num(100)))>>)>>
               \o Opt(Truthy(a.sort), <<Lit("sort="), encodeURIComponent(a.sort)>>)
               \o Opt(Truthy(a.filter),
                      <<Lit("filter["), encodeURIComponent(a.filter), Lit("]=true")>>)
         IN base \o <<Lit("?")>> \o JoinAmp(params)
    [] nm = "getProject" ->
         <<Lit("/v2/projects/"), ToStr(a.projectId)>>
    [] nm = "getMyProjects" ->
         LET params ==
               <<(<<Lit("page[size]="), ToStr(MinNum(a.pageSize, Num(100)))>>)>>
               \o Opt(Truthy(a.cursusId), <<Lit("cursus_id="), ToStr(a.cursusId)>>)
               \o Opt(Truthy(a.sort), <<Lit("sort="), encodeURIComponent(a.sort)>>)
         IN <<Lit("/v2/me/projects"), Lit("?")>> \o JoinAmp(params)

\* The text of the content the registered handler of `nm` returns
HandlerText(nm, a, body) ==
  IF nm = "getCursusLevel"
  THEN IF Len(body) # 0
       THEN [NoText EXCEPT !.fmt = "level", !.body = <<body[1]>>, !.cursus = a.cursusId]
       ELSE [NoText EXCEPT !.fmt = "notEnrolled"]
  ELSE JsonText(body)

\* The arguments a client may send with a call of `nm`: ids, page sizes, flags
\* and strings, each left out (undefined) or given, zero and the values
\* around the page limit included
IdValues == {Undef, Num(0), Num(5)}
PageSizes == {Undef, Num(0), Num(50), Num(100), Num(150)}
Flags == {Undef, Bool(TRUE), Bool(FALSE)}
Words == {Undef, Str(<<"a", "&">>)}
Queries == {Str(<<"j">>), Str(<<"j", "d">>), Str(<<"j", " ", "d">>), Str(<<"a", "&", "b", "=">>)}
ArgsOf(nm) ==
  CASE nm = "searchUsers" -> {[EmptyArgs EXCEPT !.query = q] : q \in Queries}
    [] nm = "getCursusLevel" ->
         {[EmptyArgs EXCEPT !.userId = u, !.cursusId = c] : u \in IdValues, c \in IdValues}
    [] nm = "getUserProjects" ->
         {[EmptyArgs EXCEPT !.userId = u, !.cursusId = c] : u \in IdValues, c \in IdValues}
    [] nm = "getCoalition" -> {[EmptyArgs EXCEPT !.userId = u] : u \in IdValues}
    [] nm = "getCampusUsers" ->
         {[EmptyArgs EXCEPT !.campusId = c, !.userId = u] : c \in IdValues, u \in IdValues}
    [] nm = "getBalances" -> {[EmptyArgs EXCEPT !.poolId = x] : x \in IdValues}
    [] nm = "getClusters" ->
         {[EmptyArgs EXCEPT !.campusId = c, !.name = w, !.pageSize = g] :
            c \in IdValues, w \in Words, g \in PageSizes}
    [] nm = "getLocations" ->
         {[EmptyArgs EXCEPT !.campusId = c, !.active = f, !.host = w, !.pageSize = g] :
            c \in IdValues, f \in Flags, w \in Words, g \in PageSizes}
    [] nm = "getAttachments" ->
         {[EmptyArgs EXCEPT !.projectId = x, !.projectSessionId = y, !.pageSize = g,
                            !.sort = w] :
            x \in IdValues, y \in IdValues, g \in PageSizes, w \in Words}
    [] nm = "getAttachment" ->
         {[EmptyArgs EXCEPT !.attachmentId = x, !.projectSessionId = y] :
            x \in IdValues, y \in IdValues}
    [] nm = "getProjects" ->
         {[EmptyArgs EXCEPT !.cursusId = c, !.projectId = x, !.pageSize = g, !.sort = w,
                            !.filter = v] :
            c \in IdValues, x \in IdValues, g \in PageSizes, w \in Words, v \in Words}
    [] nm = "getProject" -> {[EmptyArgs EXCEPT !.projectId = x] : x \in IdValues}
    [] nm = "getMyProjects" ->
         {[EmptyArgs EXCEPT !.cursusId = c, !.pageSize = g, !.sort = w] :
            c \in IdValues, g \in PageSizes, w \in Words}
CallIds == {Undef, Num(1)}

\* ---------------------------------------------------------------------------
\* The environment: the envelopes clients post and the answers of the OAuth
\* endpoint and of the REST API
\* ---------------------------------------------------------------------------
SearchArgs == [EmptyArgs EXCEPT !.query = Str(<<"j", " ">>)]
LevelArgs == [EmptyArgs EXCEPT !.userId = Num(3)]
\* a query of one character, below the minimum length of searchUsers
ShortQueryArgs == [EmptyArgs EXCEPT !.query = Str(<<"j">>)]

Bodies ==
  { NoBody,
    MalformedBody,
    \* envelopes that fail the jsonrpc check
    Envelope(Lit("1.0"), Lit("initialize"), NoParams, Num(0)),
    Envelope(Num(2), Lit("tools/call"), Params(Lit("searchUsers"), SearchArgs), Lit("a")),
    Envelope(Undef, Lit("resources/list"), NoParams, Undef),
    \* methods answered without I/O
    Envelope(Lit("2.0"), Lit("initialize"), NoParams, Undef),
    Envelope(Lit("2.0"), Lit("tools/list"), NoParams, Num(0)),
    Envelope(Lit("2.0"), Lit("resources/list"), NoParams, Lit("a")),
    \* methods the switch does not know
    Envelope(Lit("2.0"), Lit("resources/read"), NoParams, Num(1)),
    Envelope(Lit("2.0"), Undef, NoParams, Undef),
    \* tools/call
    Envelope(Lit("2.0"), Lit("tools/call"), NoParams, Num(1)),
    Envelope(Lit("2.0"), Lit("tools/call"), Params(Lit("doesNotExist"), EmptyArgs), Num(0)),
    Envelope(Lit("2.0"), Lit("tools/call"), Params(Lit("searchUsers"), NoArgs), Num(1)),
    Envelope(Lit("2.0"), Lit("tools/call"), Params(Lit("searchUsers"), ShortQueryArgs), Num(1)),
    Envelope(Lit("2.0"), Lit("tools/call"), Params(Lit("getCursusLevel"), LevelArgs), Undef) }

\* expires_in of a successful OAuth answer (undefined: the field is missing)
ExpiresIns == {Undef, Num(60), Num(61)}
\* status and body of a non-2xx answer
Failures == {[status |-> 401, body |-> "unauthorized"], [status |-> 500, body |-> "oops"]}
\* the JSON arrays the REST API answers with, as lists of levels
UpBodies == {<<>>, <<7>>}

\* ---------------------------------------------------------------------------
\* State
\* ---------------------------------------------------------------------------
VARIABLES
  now,         \* Date.now(), in seconds
  ticks,       \* how often the clock has advanced
  tokenCache,  \* the entry of tokenCache under 'access_token'
  cacheMeta,   \* history: when the entry was set and with which expires_in
  issued,      \* history: number of tokens the OAuth endpoint has issued
  pc,          \* per request: "idle", "oauth", "get", "done"
  req,         \* per request: req.body
  url,         \* per request: the path handed to apiRequest
  token,       \* per request: the token apiRequest holds (0: none)
  resp,        \* per request: the JSON body sent back
  http,        \* per request: the HTTP status sent back (0: none yet)
  rejected,    \* per request: handleRequest rejected instead of returning
  errlog,      \* per request: the error console.error received
  oauthCalls,  \* per request: OAuth exchanges issued while handling it
  getCalls,    \* per request: REST GETs issued while handling it
  answer,      \* per request, history: the last upstream answer it received
  after401,    \* per request, history: received after a 401 of the OAuth endpoint
  fetched,     \* per request, history: the JSON of the 2xx answer to its GET
  health,      \* the body GET /health is answering with right now
  tool         \* one tool call taken through both transports, and what each did

vars == <<now, ticks, tokenCache, cacheMeta, issued, pc, req, url, token, resp,
          http, rejected, errlog, oauthCalls, getCalls, answer, after401, fetched,
          health, tool>>
\* the state of the HTTP server
server == <<now, ticks, tokenCache, cacheMeta, issued, pc, req, url, token, resp,
            http, rejected, errlog, oauthCalls, getCalls, answer, after401, fetched,
            health>>

NoMeta == [has |-> FALSE, at |-> 0, expires_in |-> Undef, token |-> 0]
NoAnswer == [status |-> 0, body |-> ""]
OkAnswer == [status |-> 200, body |-> ""]
\* a transport that has not run the call, and no call at all
NoRun == [ran |-> FALSE, path |-> <<>>, resp |-> NoResp]
NoTool == [name |-> "none", args |-> NoArgs, body |-> <<>>, id |-> Undef,
           manual |-> NoRun, handler |-> NoRun]
NoHealth == [status |-> "", server |-> "", version |-> ""]
\* res.json({ status: 'healthy', server: '42-api-server', version: '0.1.5' })
HealthReply == [status |-> "healthy", server |-> "42-api-server", version |-> "0.1.5"]

ServerStarted ==
  /\ now = T0
  /\ ticks = 0
  /\ tokenCache = NoEntry
  /\ cacheMeta = NoMeta
  /\ issued = 0
  /\ pc = [r \in Reqs |-> "idle"]
  /\ req = [r \in Reqs |-> NoBody]
  /\ url = [r \in Reqs |-> <<>>]
  /\ token = [r \in Reqs |-> 0]
  /\ resp = [r \in Reqs |-> NoResp]
  /\ http = [r \in Reqs |-> 0]
  /\ rejected = [r \in Reqs |-> FALSE]
  /\ errlog = [r \in Reqs |-> NoLog]
  /\ oauthCalls = [r \in Reqs |-> 0]
  /\ getCalls = [r \in Reqs |-> 0]
  /\ answer = [r \in Reqs |-> NoAnswer]
  /\ after401 = [r \in Reqs |-> FALSE]
  /\ fetched = [r \in Reqs |-> <<>>]
  /\ health = NoHealth

Init == ServerStarted /\ tool = NoTool

\* res.json(response) at the end of app.post('/'): status 200
Reply(r, response, log) ==
  /\ pc' = [pc EXCEPT ![r] = "done"]
  /\ url' = [url EXCEPT ![r] = <<>>]
  /\ token' = [token EXCEPT ![r] = 0]
  /\ resp' = [resp EXCEPT ![r] = response]
  /\ http' = [http EXCEPT ![r] = 200]
  /\ errlog' = [errlog EXCEPT ![r] = log]
  /\ rejected' = rejected

\* handleRequest rejected: the catch block of app.post('/') answers
ReplyRejected(r, b, log) ==
  /\ pc' = [pc EXCEPT ![r] = "done"]
  /\ url' = [url EXCEPT ![r] = <<>>]
  /\ token' = [token EXCEPT ![r] = 0]
  /\ resp' = [resp EXCEPT ![r] = PostCatchResp(b)]
  /\ http' = [http EXCEPT ![r] = 500]
  /\ errlog' = [errlog EXCEPT ![r] = log]
  /\ rejected' = [rejected EXCEPT ![r] = TRUE]

\* express's default error handler answers a body-parser failure: status
\* 400, no JSON-RPC envelope
ReplyParseError(r) ==
  /\ pc' = [pc EXCEPT ![r] = "done"]
  /\ resp' = [resp EXCEPT ![r] = NoResp]
  /\ http' = [http EXCEPT ![r] = ParseErrorStatus]
  /\ UNCHANGED <<url, token, errlog, rejected>>

\* some other request has just been answered -32603 because the OAuth
\* endpoint returned 401
OAuth401Answered(r) ==
  \E q \in Reqs \ {r} :
    /\ pc[q] = "done"
    /\ errlog[q].kind = "42 API oauth failure"
    /\ errlog[q].status = 401

\* a faulty apiRequest that remembers a 401 of the OAuth endpoint: once one
\* has been seen it answers an error instead of asking for a token again
StartApiRequest_Poisoned(r, path) ==
  LET cached == CacheGet(tokenCache, now) IN
  IF OAuth401Answered(r)
  THEN /\ Reply(r, CatchResp(NoLog, req'[r].id), NoLog)
       /\ UNCHANGED <<tokenCache, oauthCalls, getCalls>>
  ELSE /\ tokenCache' = CacheAfterGet(tokenCache, now)
       /\ url' = [url EXCEPT ![r] = path]
       /\ IF cached # 0
          THEN /\ token' = [token EXCEPT ![r] = cached]
               /\ pc' = [pc EXCEPT ![r] = "get"]
               /\ getCalls' = [getCalls EXCEPT ![r] = @ + 1]
               /\ UNCHANGED oauthCalls
          ELSE /\ pc' = [pc EXCEPT ![r] = "oauth"]
               /\ oauthCalls' = [oauthCalls EXCEPT ![r] = @ + 1]
               /\ UNCHANGED <<token, getCalls>>
       /\ UNCHANGED <<resp, http, errlog, rejected>>

\* apiRequest(path) up to its first suspension: getAccessToken either
\* returns the cached token, and the GET is sent, or starts an exchange
StartApiRequest(r, path) ==
  LET cached == CacheGet(tokenCache, now) IN
  /\ tokenCache' = CacheAfterGet(tokenCache, now)
  /\ url' = [url EXCEPT ![r] = path]
  /\ IF cached # 0
     THEN /\ token' = [token EXCEPT ![r] = cached]
          /\ pc' = [pc EXCEPT ![r] = "get"]
          /\ getCalls' = [getCalls EXCEPT ![r] = @ + 1]
          /\ UNCHANGED oauthCalls
     ELSE /\ pc' = [pc EXCEPT ![r] = "oauth"]
          /\ oauthCalls' = [oauthCalls EXCEPT ![r] = @ + 1]
          /\ UNCHANGED <<token, getCalls>>
  /\ UNCHANGED <<resp, http, errlog, rejected>>

\* app.post('/') with body b: handleRequest runs to its first suspension
\* point or to its return
Receive(r, b) ==
  /\ pc[r] = "idle"
  /\ req' = [req EXCEPT ![r] = b]
  /\ after401' = [after401 EXCEPT ![r] = OAuth401Answered(r)]
  /\ UNCHANGED <<now, ticks, cacheMeta, issued, answer>>
  /\ IF b.malformed
     THEN \* express.json() passes the parse error on; the handler never runs
          /\ ReplyParseError(r)
          /\ UNCHANGED <<tokenCache, oauthCalls, getCalls>>
     ELSE IF ~b.present
     THEN \* destructuring undefined throws before the try block
          /\ ReplyRejected(r, b, TypeErrorLog)
          /\ UNCHANGED <<tokenCache, oauthCalls, getCalls>>
     ELSE IF InvalidEnvelope(b)
     THEN /\ Reply(r, InvalidResp(b), NoLog)
          /\ UNCHANGED <<tokenCache, oauthCalls, getCalls>>
     ELSE IF MethodName(b) = "tools/call" /\ b.params.k = "obj"
             /\ ToolName(b.params.name) \in ManualTools /\ b.params.args.k = "obj"
     THEN StartApiRequest(r, ManualPath(ToolName(b.params.name), b.params.args))
     ELSE /\ UNCHANGED <<tokenCache, oauthCalls, getCalls>>
          /\ CASE MethodName(b) = "initialize" -> Reply(r, InitializeResp(b.id), NoLog)
               [] MethodName(b) = "tools/list" -> Reply(r, ToolsListResp(b.id), NoLog)
               [] MethodName(b) = "resources/list" -> Reply(r, ResourcesListResp(b.id), NoLog)
               [] MethodName(b) = "tools/call" ->
                    IF b.params.k # "obj"
                    THEN \* destructuring params throws inside the try block
                         Reply(r, CatchResp(TypeErrorLog, b.id), TypeErrorLog)
                    ELSE IF ToolName(b.params.name) \in ManualTools
                    THEN \* reading a property of undefined arguments throws
                         Reply(r, CatchResp(TypeErrorLog, b.id), TypeErrorLog)
                    ELSE Reply(r, ToolNotFoundResp(b.id), NoLog)
               [] OTHER -> Reply(r, MethodNotFoundResp(b.id), NoLog)
  /\ UNCHANGED fetched
  /\ UNCHANGED tool
  /\ health' = NoHealth

\* the OAuth endpoint answers 2xx: the token is cached and the GET is sent
OAuthOk(r, expires_in) ==
  /\ pc[r] = "oauth"
  /\ issued < MaxTokens
  /\ issued' = issued + 1
  /\ tokenCache' = CacheSet(issued + 1, TtlOf(expires_in), now)
  /\ cacheMeta' = [has |-> TRUE, at |-> now, expires_in |-> expires_in, token |-> issued + 1]
  /\ token' = [token EXCEPT ![r] = issued + 1]
  /\ pc' = [pc EXCEPT ![r] = "get"]
  /\ getCalls' = [getCalls EXCEPT ![r] = @ + 1]
  /\ answer' = [answer EXCEPT ![r] = OkAnswer]
  /\ UNCHANGED <<now, ticks, req, url, resp, http, rejected, errlog, oauthCalls, after401>>
  /\ UNCHANGED fetched
  /\ UNCHANGED tool
  /\ health' = NoHealth

\* a faulty getAccessToken that repeats the exchange after a non-2xx answer
OAuthFail_Retry(r, f) ==
  /\ pc[r] = "oauth"
  /\ oauthCalls' = [oauthCalls EXCEPT ![r] = @ + 1]
  /\ answer' = [answer EXCEPT ![r] = f]
  /\ UNCHANGED <<now, ticks, tokenCache, cacheMeta, issued, pc, req, url, token, resp,
                 http, rejected, errlog, getCalls, after401>>
  /\ UNCHANGED fetched
  /\ UNCHANGED tool
  /\ health' = NoHealth

\* the OAuth endpoint answers non-2xx: getAccessToken throws
OAuthFail(r, f) ==
  /\ pc[r] = "oauth"
  /\ Reply(r, CatchResp(OAuthFailure(f.status, f.body), req[r].id), OAuthFailure(f.status, f.body))
  /\ answer' = [answer EXCEPT ![r] = f]
  /\ UNCHANGED <<now, ticks, tokenCache, cacheMeta, issued, req, oauthCalls, getCalls, after401>>
  /\ UNCHANGED fetched
  /\ UNCHANGED tool
  /\ health' = NoHealth

\* a faulty dispatcher whose answer tells whether it had to fetch a token
GetOk_CountsExchanges(r, body) ==
  /\ pc[r] = "get"
  /\ Reply(r, ResultResp("content",
                         ManualText(ToolName(req[r].params.name), req[r].params.args, body),
                         Num(oauthCalls[r])), NoLog)
  /\ answer' = [answer EXCEPT ![r] = OkAnswer]
  /\ UNCHANGED <<now, ticks, tokenCache, cacheMeta, issued, req, oauthCalls, getCalls, after401>>
  /\ fetched' = [fetched EXCEPT ![r] = body]
  /\ UNCHANGED tool
  /\ health' = NoHealth

\* the REST API answers 2xx with a JSON body
GetOk(r, body) ==
  /\ pc[r] = "get"
  /\ Reply(r, ResultResp("content",
                         ManualText(ToolName(req[r].params.name), req[r].params.args, body),
                         req[r].id), NoLog)
  /\ answer' = [answer EXCEPT ![r] = OkAnswer]
  /\ UNCHANGED <<now, ticks, tokenCache, cacheMeta, issued, req, oauthCalls, getCalls, after401>>
  /\ fetched' = [fetched EXCEPT ![r] = body]
  /\ UNCHANGED tool
  /\ health' = NoHealth

\* a faulty apiRequest that keeps waiting after a non-2xx answer
GetFail_Hangs(r, f) ==
  /\ pc[r] = "get"
  /\ answer' = [answer EXCEPT ![r] = f]
  /\ UNCHANGED <<now, ticks, tokenCache, cacheMeta, issued, pc, req, url, token, resp,
                 http, rejected, errlog, oauthCalls, getCalls, after401, fetched>>
  /\ UNCHANGED tool
  /\ health' = NoHealth

\* a faulty apiRequest that drops the cached token when the REST API
\* answers 401
GetFail_Evicts(r, f) ==
  /\ pc[r] = "get"
  /\ Reply(r, CatchResp(ApiError(f.status, f.body), req[r].id), ApiError(f.status, f.body))
  /\ answer' = [answer EXCEPT ![r] = f]
  /\ tokenCache' = IF f.status = 401 THEN NoEntry ELSE tokenCache
  /\ UNCHANGED <<now, ticks, cacheMeta, issued, req, oauthCalls, getCalls, after401>>
  /\ UNCHANGED fetched
  /\ UNCHANGED tool
  /\ health' = NoHealth

\* the REST API answers non-2xx: apiRequest throws
GetFail(r, f) ==
  /\ pc[r] = "get"
  /\ Reply(r, CatchResp(ApiError(f.status, f.body), req[r].id), ApiError(f.status, f.body))
  /\ answer' = [answer EXCEPT ![r] = f]
  /\ UNCHANGED <<now, ticks, tokenCache, cacheMeta, issued, req, oauthCalls, getCalls, after401>>
  /\ UNCHANGED fetched
  /\ UNCHANGED tool
  /\ health' = NoHealth

\* the response has been sent; the slot is free for the next request
Retire(r) ==
  /\ pc[r] = "done"
  /\ pc' = [pc EXCEPT ![r] = "idle"]
  /\ req' = [req EXCEPT ![r] = NoBody]
  /\ UNCHANGED <<url, token>>
  /\ resp' = [resp EXCEPT ![r] = NoResp]
  /\ http' = [http EXCEPT ![r] = 0]
  /\ rejected' = [rejected EXCEPT ![r] = FALSE]
  /\ errlog' = [errlog EXCEPT ![r] = NoLog]
  /\ oauthCalls' = [oauthCalls EXCEPT ![r] = 0]
  /\ getCalls' = [getCalls EXCEPT ![r] = 0]
  /\ answer' = [answer EXCEPT ![r] = NoAnswer]
  /\ after401' = [after401 EXCEPT ![r] = FALSE]
  /\ UNCHANGED <<now, ticks, tokenCache, cacheMeta, issued>>
  /\ fetched' = [fetched EXCEPT ![r] = <<>>]
  /\ UNCHANGED tool
  /\ health' = NoHealth

\* the clock advances
Tick(d) ==
  /\ ticks < MaxTicks
  /\ now' = now + d
  /\ ticks' = ticks + 1
  /\ UNCHANGED <<tokenCache, cacheMeta, issued, pc, req, url, token, resp, http,
                 rejected, errlog, oauthCalls, getCalls, answer, after401>>
  /\ UNCHANGED fetched
  /\ UNCHANGED tool
  /\ health' = NoHealth

\* a faulty probe that reports on the token cache
Health_NeedsToken ==
  /\ health' = IF tokenCache.has THEN HealthReply ELSE [HealthReply EXCEPT !.status = "unhealthy"]
  /\ UNCHANGED <<now, ticks, tokenCache, cacheMeta, issued, pc, req, url, token, resp, http,
                 rejected, errlog, oauthCalls, getCalls, answer, after401, fetched, tool>>

\* app.get('/health'): answers from constants; the POST actions above end
\* the answering of an earlier probe
Health ==
  /\ health' = HealthReply
  /\ UNCHANGED <<now, ticks, tokenCache, cacheMeta, issued, pc, req, url, token, resp, http,
                 rejected, errlog, oauthCalls, getCalls, answer, after401, fetched, tool>>

Next ==
  \/ \E r \in Reqs, b \in Bodies : Receive(r, b)
  \/ \E r \in Reqs, e \in ExpiresIns : OAuthOk(r, e)
  \/ \E r \in Reqs, f \in Failures : OAuthFail(r, f)
  \/ \E r \in Reqs, body \in UpBodies : GetOk(r, body)
  \/ \E r \in Reqs, f \in Failures : GetFail(r, f)
  \/ \E r \in Reqs : Retire(r)
  \/ \E d \in TickSteps : Tick(d)

Spec == Init /\ [][Next]_vars

\* every outbound call returns: the fetch of the OAuth endpoint and the fetch
\* of the REST API are answered, with success or with failure
OAuthAnswers(r) ==
  \/ \E e \in ExpiresIns : OAuthOk(r, e)
  \/ \E f \in Failures : OAuthFail(r, f)
GetAnswers(r) ==
  \/ \E body \in UpBodies : GetOk(r, body)
  \/ \E f \in Failures : GetFail(r, f)
FairSpec ==
  /\ Init /\ [][Next]_vars
  /\ \A r \in Reqs : WF_vars(OAuthAnswers(r)) /\ WF_vars(GetAnswers(r))

\* One tool call taken through both transports: the tools/call branch of
\* handleRequest with the JSON the REST API returned, and the handler the
\* tool is registered with, which runs once the arguments pass its schema
ToolCalls ==
  UNION {{[NoTool EXCEPT !.name = nm, !.args = a, !.body = b, !.id = i] :
            a \in ArgsOf(nm), b \in UpBodies, i \in CallIds} : nm \in ManualTools}
ToolInit == ServerStarted /\ tool \in ToolCalls
RunManual ==
  /\ tool.name \in ManualTools
  /\ ~tool.manual.ran
  /\ tool' = [tool EXCEPT !.manual =
                [ran |-> TRUE,
                 path |-> ManualPath(tool.name, tool.args),
                 resp |-> ResultResp("content",
                                     ManualText(tool.name, tool.args, tool.body), tool.id)]]
  /\ UNCHANGED server
RunHandler ==
  /\ tool.name \in RegisteredTools
  /\ ~tool.handler.ran
  /\ SchemaOk(tool.name, tool.args)
  /\ LET parsed == ApplyDefaults(tool.name, tool.args) IN
     tool' = [tool EXCEPT !.handler =
                [ran |-> TRUE,
                 path |-> HandlerPath(tool.name, parsed),
                 resp |-> ResultResp("content",
                                     HandlerText(tool.name, parsed, tool.body), tool.id)]]
  /\ UNCHANGED server
ToolNext == RunManual \/ RunHandler
ToolSpec == ToolInit /\ [][ToolNext]_vars

\* the server with its health probe
HealthNext == Next \/ Health
HealthSpec == Init /\ [][HealthNext]_vars

\* ---------------------------------------------------------------------------
\* Properties
\* ---------------------------------------------------------------------------
\* the id a response must carry for a request with id i
Echo(i) == IF i = Undef THEN Null ELSE i
\* request r has been answered by a return of handleRequest
Answered(r) == pc[r] = "done" /\ ~rejected[r] /\ http[r] = 200
ValidEnvelope(r) == req[r].present /\ req[r].jsonrpc = Lit("2.0")
KnownMethods == {"initialize", "tools/list", "tools/call", "resources/list"}
UpstreamFailures == {"42 API oauth failure", "42 API error"}

\* C1: every envelope whose jsonrpc is not exactly "2.0" is answered with
\* error -32600 and the id of the request (falsy ids included), null only
\* when the request has no id.
C1_InvalidEnvelopeEchoesId ==
  \A r \in Reqs :
    (pc[r] = "done" /\ req[r].present /\ req[r].jsonrpc # Lit("2.0"))
      => /\ resp[r].hasError
         /\ resp[r].code = InvalidRequest
         /\ resp[r].id = Echo(req[r].id)

\* C2: every response of handleRequest carries the id of its request, and
\* null when the request has none; the id field is never absent.
C2_EveryResponseEchoesId ==
  \A r \in Reqs : Answered(r) => resp[r].id = Echo(req[r].id)

\* C3: a request with jsonrpc "2.0" whose routing raises an exception is
\* answered with error -32603; handleRequest does not reject for it.
C3_ExceptionsBecomeInternalError ==
  \A r \in Reqs :
    (pc[r] = "done" /\ ValidEnvelope(r))
      => /\ ~rejected[r]
         /\ http[r] = 200
         /\ errlog[r].kind # "none"
              => /\ resp[r].hasError
                 /\ resp[r].code = InternalError

\* C3 witness: an upstream failure and a missing params both ended in -32603
C3_Witness ==
  \E r1, r2 \in Reqs :
    /\ Answered(r1) /\ ValidEnvelope(r1) /\ errlog[r1].kind \in UpstreamFailures
    /\ Answered(r2) /\ ValidEnvelope(r2) /\ errlog[r2].kind = "TypeError"
    /\ resp[r1].code = InternalError /\ resp[r2].code = InternalError

\* a tools/call whose params name a tool that is not registered
UnregisteredCall(r) ==
  /\ ValidEnvelope(r)
  /\ MethodName(req[r]) = "tools/call"
  /\ req[r].params.k = "obj"
  /\ ToolName(req[r].params.name) \notin RegisteredTools

\* C4: a tools/call naming an unregistered tool is answered with -32601 and
\* issues no OAuth exchange and no REST GET.
C4_UnregisteredToolNotFound ==
  \A r \in Reqs :
    (pc[r] # "idle" /\ UnregisteredCall(r))
      => /\ pc[r] = "done"
         /\ resp[r].hasError
         /\ resp[r].code = MethodNotFound
         /\ oauthCalls[r] = 0
         /\ getCalls[r] = 0

C4_Witness ==
  \E r \in Reqs : Answered(r) /\ UnregisteredCall(r) /\ resp[r].code = MethodNotFound

\* C5: a request with jsonrpc "2.0" whose method is none of the four known
\* ones (resources/read, a missing method) is answered with -32601 and issues
\* no OAuth exchange and no REST GET.
C5_UnknownMethodNotFound ==
  \A r \in Reqs :
    (pc[r] # "idle" /\ ValidEnvelope(r) /\ MethodName(req[r]) \notin KnownMethods)
      => /\ pc[r] = "done"
         /\ resp[r].hasError
         /\ resp[r].code = MethodNotFound
         /\ oauthCalls[r] = 0
         /\ getCalls[r] = 0

\* C5 witness: resources/read and a missing method were both answered
C5_Witness ==
  \E r1, r2 \in Reqs :
    /\ Answered(r1) /\ ValidEnvelope(r1) /\ req[r1].method = Lit("resources/read")
    /\ Answered(r2) /\ ValidEnvelope(r2) /\ req[r2].method = Undef
    /\ resp[r1].code = MethodNotFound /\ resp[r2].code = MethodNotFound

\* C6: every response of handleRequest has exactly one of result and error.
C6_ExactlyOneOfResultAndError ==
  \A r \in Reqs : Answered(r) => (resp[r].hasResult # resp[r].hasError)

\* C6 witness: a tool result and a caught upstream failure have been returned
C6_Witness ==
  \E r1, r2 \in Reqs :
    /\ Answered(r1) /\ resp[r1].kind = "content" /\ resp[r1].hasResult
    /\ Answered(r2) /\ errlog[r2].kind \in UpstreamFailures /\ resp[r2].hasError

\* C7: two requests with the same envelope that both fail upstream, whatever
\* the status and body of the failing answers, get the same response: code
\* -32603, message "Internal error".
C7_UpstreamDetailDoesNotLeak ==
  \A r1, r2 \in Reqs :
    (/\ Answered(r1) /\ Answered(r2)
     /\ req[r1] = req[r2]
     /\ errlog[r1].kind \in UpstreamFailures
     /\ errlog[r2].kind \in UpstreamFailures)
      => /\ resp[r1] = resp[r2]
         /\ resp[r1].code = InternalError
         /\ resp[r1].message = "Internal error"

\* C7 witness: the same envelope failed twice with different status and body
C7_Witness ==
  \E r1, r2 \in Reqs :
    /\ Answered(r1) /\ Answered(r2)
    /\ req[r1] = req[r2]
    /\ errlog[r1].kind \in UpstreamFailures
    /\ errlog[r2].kind \in UpstreamFailures
    /\ errlog[r1].status # errlog[r2].status
    /\ errlog[r1].body # errlog[r2].body

\* the expiry of the cached token as the design states it: the time of the
\* exchange plus expires_in minus the margin; the cache's standard TTL
\* when the answer carried no expires_in
ExpiresAt(m) ==
  IF m.expires_in.k = "num" THEN m.at + m.expires_in.n - Margin ELSE m.at + StdTTL

\* this step is request r calling getAccessToken
CallsGetAccessToken(r) == pc[r] = "idle" /\ pc'[r] \in {"oauth", "get"}
\* this step is request r receiving the token of a successful exchange
ReceivesToken(r) == pc[r] = "oauth" /\ pc'[r] = "get"

\* C8: a getAccessToken call made while the cached token has not passed its
\* expiry returns the cached token and performs no OAuth exchange; the cache
\* is left as it is.
C8_CacheHitWithinWindow ==
  [][\A r \in Reqs :
       (CallsGetAccessToken(r) /\ cacheMeta.has /\ now <= ExpiresAt(cacheMeta))
         => /\ pc'[r] = "get"
            /\ token'[r] = cacheMeta.token
            /\ oauthCalls'[r] = 0
            /\ issued' = issued
            /\ tokenCache' = tokenCache]_vars

\* C8 witness: after the clock has advanced, but not past the expiry, a
\* request holds the cached token without having started an exchange
C8_Witness ==
  \E r \in Reqs :
    /\ pc[r] = "get" /\ oauthCalls[r] = 0 /\ getCalls[r] = 1
    /\ cacheMeta.has /\ token[r] = cacheMeta.token
    /\ cacheMeta.at < now /\ now <= ExpiresAt(cacheMeta)

\* C9: once the expiry of the cached token has passed, the next
\* getAccessToken call performs exactly one OAuth exchange, returns the token
\* that exchange issued and stores it in the cache.
C9_RefreshAfterExpiry ==
  [][\A r \in Reqs :
       /\ (CallsGetAccessToken(r) /\ cacheMeta.has /\ now > ExpiresAt(cacheMeta))
            => (pc'[r] = "oauth" /\ oauthCalls'[r] = 1)
       /\ ReceivesToken(r)
            => /\ oauthCalls'[r] = 1
               /\ token'[r] = issued'
               /\ issued' = issued + 1
               /\ tokenCache'.has /\ tokenCache'.v = token'[r]]_vars

\* C10: getAccessToken returns a cached token only if the current time is
\* strictly before the expiry of that token, for every expires_in.
C10_ServedOnlyBeforeExpiry ==
  [][\A r \in Reqs :
       (CallsGetAccessToken(r) /\ pc'[r] = "get")
         => (cacheMeta.has /\ token'[r] = cacheMeta.token /\ now < ExpiresAt(cacheMeta))]_vars

\* C11: after a successful exchange at time `at` returning expires_in, the
\* expiry of the cached token is at + expires_in - 60 for every expires_in,
\* and is never taken from the cache's 50 minute standard TTL.
C11_ExpiryIsExpiresInMinusMargin ==
  (tokenCache.has /\ cacheMeta.has /\ tokenCache.v = cacheMeta.token)
    => /\ cacheMeta.expires_in.k = "num"
            => tokenCache.t = cacheMeta.at + cacheMeta.expires_in.n - Margin
       /\ cacheMeta.expires_in.k # "num"
            => tokenCache.t # cacheMeta.at + StdTTL

\* C12: at most one OAuth exchange is outstanding at any time, whatever the
\* interleaving of the requests that find no valid token in the cache.
C12_SingleFlightRefresh ==
  Cardinality({r \in Reqs : pc[r] = "oauth"}) <= 1

\* C13: when the OAuth endpoint answers with a non-success status, the error
\* raised carries that status and the body of the answer, the token cache is
\* left as it was, and no REST GET is issued for the request.
OAuthRejected(r) == pc[r] = "oauth" /\ pc'[r] = "done"
C13_OAuthFailureAborts ==
  [][\A r \in Reqs :
       OAuthRejected(r)
         => /\ answer'[r] \in Failures
            /\ errlog'[r].kind = "42 API oauth failure"
            /\ errlog'[r].status = answer'[r].status
            /\ errlog'[r].body = answer'[r].body
            /\ tokenCache' = tokenCache
            /\ getCalls'[r] = 0]_vars
C13_Witness ==
  \E r \in Reqs :
    /\ pc[r] = "done"
    /\ answer[r] = [status |-> 401, body |-> "unauthorized"]
    /\ errlog[r] = OAuthFailure(401, "unauthorized")
    /\ oauthCalls[r] = 1
    /\ getCalls[r] = 0
    /\ ~tokenCache.has

\* a request with a valid envelope that calls a tool of the dispatcher with
\* an arguments object
ManualCall(b) ==
  /\ b.present /\ b.jsonrpc = Lit("2.0")
  /\ MethodName(b) = "tools/call"
  /\ b.params.k = "obj"
  /\ ToolName(b.params.name) \in ManualTools
  /\ b.params.args.k = "obj"
Arrives(r) == pc[r] = "idle" /\ pc'[r] # "idle"

C15_NoRetry ==
  \A r \in Reqs :
    /\ oauthCalls[r] <= 1
    /\ getCalls[r] <= 1
    /\ answer[r] \in Failures
         => /\ pc[r] = "done"
            /\ errlog[r].kind \in UpstreamFailures
            /\ resp[r].hasError /\ ~resp[r].hasResult
            /\ resp[r].code = InternalError
C15_Witness ==
  \E r \in Reqs :
    /\ pc[r] = "done"
    /\ answer[r] \in Failures
    /\ errlog[r].kind = "42 API error"
    /\ oauthCalls[r] = 1 /\ getCalls[r] = 1
    /\ resp[r].code = InternalError

\* a request with a valid envelope that calls a registered tool
RegisteredCall(b) ==
  /\ b.present /\ b.jsonrpc = Lit("2.0")
  /\ MethodName(b) = "tools/call"
  /\ b.params.k = "obj"
  /\ ToolName(b.params.name) \in RegisteredTools

\* C16: a tools/call of a registered tool whose arguments violate the schema
\* the tool is registered with never reaches the tool's code: no OAuth
\* exchange and no REST GET is issued for it, and its answer is the error
\* -32603.
C16_InvalidArgumentsRejected ==
  \A r \in Reqs :
    (pc[r] # "idle" /\ RegisteredCall(req[r])
       /\ ~SchemaOk(ToolName(req[r].params.name), req[r].params.args))
      => /\ pc[r] = "done"
         /\ oauthCalls[r] = 0 /\ getCalls[r] = 0
         /\ resp[r].hasError /\ resp[r].code = InternalError

Range(f) == {f[x] : x \in DOMAIN f}

\* C17: the tools named by tools/list are the registered tools, each
\* advertised with the schema it is registered with, and tools/call answers
\* no registered tool with -32601.
C17_NoCatalogDrift ==
  \A r \in Reqs :
    (Answered(r) /\ ValidEnvelope(r))
      => /\ resp[r].kind = "tools"
              => /\ Range(resp[r].text.names) = RegisteredTools
                 /\ \A nm \in Range(resp[r].text.names) :
                      AdvertisedSchema(nm) = RegisteredSchema(nm)
         /\ RegisteredCall(req[r]) => resp[r].code # MethodNotFound

\* C18: resources/list names every registered resource that has a fixed URI
\* and none that is a template.
C18_ListsStaticResources ==
  \A r \in Reqs :
    (Answered(r) /\ resp[r].kind = "resources")
      => /\ Range(resp[r].text.names) = RegisteredStaticResources
         /\ Range(resp[r].text.names) \cap RegisteredTemplates = {}

\* the methods answered from constants of the dispatcher
StaticMethods == {"initialize", "tools/list", "resources/list"}
StaticRequest(b) ==
  b.present /\ b.jsonrpc = Lit("2.0") /\ MethodName(b) \in StaticMethods
Payload(response) == [response EXCEPT !.id = Undef]

\* C19: handling initialize, tools/list or resources/list issues no OAuth
\* exchange and no REST GET and leaves the token cache as it was; the result
\* is the payload every other call of the method received, whatever the cache
\* holds, and initialize reports protocolVersion and the server name
\* 42-api-server.
C19_StaticMethodsHaveNoEffect ==
  [][\A r \in Reqs :
       (Arrives(r) /\ StaticRequest(req'[r]))
         => /\ tokenCache' = tokenCache
            /\ cacheMeta' = cacheMeta /\ issued' = issued
            /\ oauthCalls'[r] = 0 /\ getCalls'[r] = 0
            /\ pc'[r] = "done" /\ http'[r] = 200
            /\ resp'[r].hasResult /\ ~resp'[r].hasError
            /\ MethodName(req'[r]) = "initialize"
                 => /\ resp'[r].text.info.protocolVersion = "2024-11-05"
                    /\ resp'[r].text.info.name = "42-api-server"
            /\ \A q \in Reqs \ {r} :
                 (pc[q] = "done" /\ StaticRequest(req[q])
                    /\ MethodName(req[q]) = MethodName(req'[r]))
                   => Payload(resp'[r]) = Payload(resp[q])]_vars
C19_Witness ==
  \E r1, r2 \in Reqs :
    /\ r1 # r2
    /\ tokenCache.has
    /\ Answered(r1) /\ StaticRequest(req[r1]) /\ MethodName(req[r1]) = "initialize"
    /\ Answered(r2) /\ StaticRequest(req[r2]) /\ MethodName(req[r2]) = "initialize"
    /\ resp[r1].text.info.name = "42-api-server"
    /\ Payload(resp[r1]) = Payload(resp[r2])

\* C20: the POST is answered with status 200 whenever handleRequest returns
\* an envelope, result or error, and with status 500 and the error -32603,
\* carrying the id of the request or null, whenever the body is absent or
\* malformed or an exception is raised before the dispatch.
C20_HttpStatusFollowsTransport ==
  \A r \in Reqs :
    pc[r] = "done"
      => IF req[r].present /\ ~req[r].malformed
         THEN /\ http[r] = 200
              /\ resp[r].hasResult # resp[r].hasError
         ELSE /\ http[r] = 500
              /\ resp[r].hasError /\ ~resp[r].hasResult
              /\ resp[r].code = InternalError
              /\ resp[r].id \in {Echo(req[r].id), Null}

\* C21: GET /health answers the healthy payload in every state: as it is
\* answered the body is the constant one, and the token cache, the count of
\* issued tokens and every request and its counts of exchanges and GETs are
\* left as they were.
C21_HealthIsIndependent ==
  [][health' # NoHealth
       => /\ health' = HealthReply
          /\ UNCHANGED <<now, tokenCache, cacheMeta, issued, pc, req, url, token, resp,
                         http, oauthCalls, getCalls>>]_vars
\* probes answered with no token cached while an exchange is outstanding,
\* with an expired token cached, and after an OAuth failure
C21_Witness ==
  /\ health = HealthReply
  /\ \E r \in Reqs : pc[r] = "oauth"
  /\ \E r \in Reqs : pc[r] = "done" /\ errlog[r].kind \in UpstreamFailures
  /\ tokenCache.has /\ CacheGet(tokenCache, now) = 0

\* C22: the dispatcher keeps nothing between requests: two requests with the
\* same envelope that met the same upstream answers were sent the same
\* response, whatever was handled before them and whether or not the token
\* cache made them perform an OAuth exchange.
C22_ResponseIgnoresHistory ==
  \A r1, r2 \in Reqs :
    (pc[r1] = "done" /\ pc[r2] = "done"
       /\ req[r1] = req[r2]
       /\ answer[r1] = answer[r2] /\ fetched[r1] = fetched[r2])
      => /\ resp[r1] = resp[r2]
         /\ http[r1] = http[r2]
\* the same call answered once after an exchange and once from the cache
C22_Witness ==
  \E r1, r2 \in Reqs :
    /\ pc[r1] = "done" /\ pc[r2] = "done"
    /\ ManualCall(req[r1]) /\ req[r1] = req[r2]
    /\ answer[r1] = OkAnswer /\ answer[r2] = OkAnswer
    /\ fetched[r1] = <<7>> /\ fetched[r2] = <<7>>
    /\ oauthCalls[r1] = 1 /\ oauthCalls[r2] = 0
    /\ resp[r1] = resp[r2] /\ resp[r1].hasResult

\* the steps of the lifecycle of one request: received, then waiting for the
\* OAuth endpoint or for the REST API or answered at once, then answered,
\* then idle again
LifecycleStep(r) ==
  \/ pc'[r] = pc[r]
  \/ pc[r] = "idle" /\ pc'[r] \in {"oauth", "get", "done"}
  \/ pc[r] = "oauth" /\ pc'[r] \in {"get", "done"}
  \/ pc[r] = "get" /\ pc'[r] = "done"
  \/ pc[r] = "done" /\ pc'[r] = "idle"

\* C23: when every outbound call eventually returns, every request that has
\* been received is eventually answered; it moves through the lifecycle
\* only forwards, and once it is answered its response and status stay as
\* sent until the request is over, so it gets one response and no second.
C23_EveryRequestAnsweredOnce ==
  /\ \A r \in Reqs : (pc[r] \in {"oauth", "get"}) ~> (pc[r] = "done")
  /\ [][\A r \in Reqs :
           /\ LifecycleStep(r)
           /\ (pc[r] # "done" /\ pc'[r] = "done") => http'[r] # 0
           /\ (pc[r] = "done" /\ pc'[r] = "done")
                => (resp'[r] = resp[r] /\ http'[r] = http[r])]_vars
C23_Witness ==
  \E r \in Reqs :
    /\ pc[r] = "done"
    /\ oauthCalls[r] = 1 /\ getCalls[r] = 1
    /\ http[r] = 200

\* the characters that would end or split a query-string value, and the
\* decoding of one escaped character
Reserved == {" ", "&", "="}
DecChar(c) ==
  CASE c = "%20" -> " "
    [] c = "%26" -> "&"
    [] c = "%3D" -> "="
    [] OTHER -> c
UrlDecode(cs) == [i \in 1..Len(cs) |-> DecChar(cs[i])]
SearchUsersGet(path, q) ==
  /\ Len(path) = 4
  /\ path[1] = Lit("/v2/users?filter[login]=")
  /\ path[2].k = "str"
  /\ \A i \in 1..Len(path[2].s) : path[2].s[i] \notin Reserved
  /\ UrlDecode(path[2].s) = q.s
  /\ path[3] = Lit("&page[size]=")
  /\ path[4] = Dec(5)

C25_ValidationPrecedesDispatch ==
  [][\A r \in Reqs :
       (Arrives(r) /\ req'[r].present /\ req'[r].jsonrpc # Lit("2.0"))
         => /\ pc'[r] = "done"
            /\ resp'[r].hasError /\ resp'[r].code = InvalidRequest
            /\ oauthCalls'[r] = 0 /\ getCalls'[r] = 0
            /\ url'[r] = <<>>
            /\ tokenCache' = tokenCache
            /\ cacheMeta' = cacheMeta /\ issued' = issued]_vars
C25_Witness ==
  \E r \in Reqs :
    /\ pc[r] = "done"
    /\ req[r].present /\ req[r].jsonrpc # Lit("2.0")
    /\ MethodName(req[r]) = "tools/call"
    /\ req[r].params.k = "obj" /\ req[r].params.args.k = "obj"
    /\ ToolName(req[r].params.name) \in ManualTools
    /\ resp[r].code = InvalidRequest
    /\ oauthCalls[r] = 0 /\ getCalls[r] = 0

\* this step is request r sending its REST GET
SendsGet(r) == pc[r] # "get" /\ pc'[r] = "get"

\* C26: a GET is sent only once getAccessToken has returned, with the token
\* it returned: one the OAuth endpoint issued, either in the exchange the
\* request has just completed with success or read from the cache before
\* its expiry had passed.
C26_GetCarriesValidToken ==
  [][\A r \in Reqs :
       SendsGet(r)
         => /\ token'[r] # 0 /\ token'[r] <= issued'
            /\ getCalls'[r] = 1
            /\ ReceivesToken(r)
                 => /\ answer'[r] = OkAnswer
                    /\ token'[r] = issued' /\ issued' = issued + 1
            /\ ~ReceivesToken(r)
                 => /\ pc[r] = "idle" /\ oauthCalls'[r] = 0
                    /\ tokenCache.has /\ token'[r] = tokenCache.v
                    /\ cacheMeta.token = tokenCache.v
                    /\ now <= ExpiresAt(cacheMeta)]_vars

\* the tools whose page size is capped with Math.min
CappedTools == {"getAttachments", "getProjects", "getMyProjects"}

\* the value that follows page[size]= in a requested path
SentPageSize(path) ==
  LET i == CHOOSE j \in 1..Len(path) : path[j] = Lit("page[size]=") IN path[i + 1]

\* the two ways a call is served: the manual dispatcher, the registered handler
Runs == {tool.manual, tool.handler}

\* C27: getAttachments, getProjects and getMyProjects send page[size] =
\* min(pageSize, 100) when pageSize is given and 30 when it is omitted.
C27_PageSizeIsCapped ==
  \A run \in Runs :
    (tool.name \in CappedTools /\ run.ran)
      => SentPageSize(run.path)
           = IF tool.args.pageSize = Undef THEN Dec(30)
             ELSE ToStr(MinNum(tool.args.pageSize, Num(100)))

\* C28: for a tool both transports handle and schema-valid arguments, the
\* manual dispatcher and the registered handler request the same path and
\* query string and return the same text.
C28_TransportsAgree ==
  (tool.manual.ran /\ tool.handler.ran)
    => /\ tool.manual.path = tool.handler.path
       /\ tool.manual.resp.text = tool.handler.resp.text

\* the path tokens up to the query string
Resource(path) ==
  LET cut == {j \in 1..Len(path) : path[j] = Lit("?")}
  IN IF cut = {} THEN path
     ELSE SubSeq(path, 1, (CHOOSE j \in cut : \A k \in cut : j <= k) - 1)

Given(v) == v # Undef

\* C30: of two alternative selectors exactly one decides the path: userId
\* over campusId, projectSessionId over projectId, cursusId over projectId,
\* the project-session path whenever projectSessionId is given, and the
\* unfiltered collection path when neither is given.
C30_OneSelectorDecides ==
  \A run \in Runs :
    run.ran =>
      LET a == tool.args IN
      /\ tool.name = "getCampusUsers"
           => run.path =
                IF Given(a.userId)
                THEN <<Lit("/v2/users/"), ToStr(a.userId), Lit("/campus_users")>>
                ELSE IF Given(a.campusId)
                THEN <<Lit("/v2/campus_users"), Lit("?filter[campus_id]="),
                       ToStr(a.campusId)>>
                ELSE <<Lit("/v2/campus_users")>>
      /\ tool.name = "getAttachments"
           => Resource(run.path) =
                IF Given(a.projectSessionId)
                THEN <<Lit("/v2/project_sessions/"), ToStr(a.projectSessionId),
                       Lit("/attachments")>>
                ELSE IF Given(a.projectId)
                THEN <<Lit("/v2/projects/"), ToStr(a.projectId), Lit("/attachments")>>
                ELSE <<Lit("/v2/attachments")>>
      /\ tool.name = "getProjects"
           => Resource(run.path) =
                IF Given(a.cursusId)
                THEN <<Lit("/v2/cursus/"), ToStr(a.cursusId), Lit("/projects")>>
                ELSE IF Given(a.projectId)
                THEN <<Lit("/v2/projects/"), ToStr(a.projectId), Lit("/projects")>>
                ELSE <<Lit("/v2/projects")>>
      /\ tool.name = "getAttachment"
           => run.path =
                IF Given(a.projectSessionId)
                THEN <<Lit("/v2/project_sessions/"), ToStr(a.projectSessionId),
                       Lit("/attachments/"), ToStr(a.attachmentId)>>
                ELSE <<Lit("/v2/attachments/"), ToStr(a.attachmentId)>>

\* request q has been answered with the error of a failed REST GET
GetFailed(q) == pc[q] = "done" /\ getCalls[q] = 1 /\ answer[q] \in Failures

\* C29: the token cache is written only by a successful OAuth exchange (a
\* read may delete an entry that has expired); a GET answered non-2xx, 401
\* included, leaves the cached token and its expiry unchanged, and a tool
\* call that follows while that token has not expired is sent with it,
\* without a new exchange.
C29_GetFailureKeepsToken ==
  [][/\ tokenCache' # tokenCache
          => \/ \E r \in Reqs : /\ ReceivesToken(r) /\ answer'[r] = OkAnswer
                                /\ tokenCache'.has /\ tokenCache'.v = token'[r]
             \/ /\ tokenCache' = NoEntry
                /\ tokenCache.has /\ ~CacheCheck(tokenCache, now)
     /\ cacheMeta' # cacheMeta
          => \E r \in Reqs : ReceivesToken(r) /\ answer'[r] = OkAnswer
     /\ \A r \in Reqs :
          (pc[r] = "get" /\ pc'[r] = "done" /\ answer'[r] \in Failures)
            => UNCHANGED <<tokenCache, cacheMeta>>
     /\ \A q \in Reqs : \A r \in Reqs \ {q} :
          (/\ GetFailed(q) /\ cacheMeta.has /\ now < ExpiresAt(cacheMeta)
           /\ CallsGetAccessToken(r))
            => /\ SendsGet(r) /\ token'[r] = cacheMeta.token
               /\ oauthCalls'[r] = 0 /\ tokenCache' = tokenCache]_vars

\* a GET has been answered 401, the only token ever issued is still cached,
\* and another request has been sent with it from the cache
C29_Witness ==
  \E q \in Reqs : \E r \in Reqs \ {q} :
    /\ GetFailed(q) /\ answer[q].status = 401
    /\ issued = 1 /\ tokenCache.has /\ tokenCache.v = 1 /\ cacheMeta.token = 1
    /\ pc[r] = "get" /\ oauthCalls[r] = 0 /\ token[r] = 1
====
